---- MODULE Spec2Model ----
(***************************************************************************)
(* Model of the GPA calculator: the calculation functions of               *)
(* utils/calculations, the GPACalculator form component and the App        *)
(* component with its localStorage effects.                                *)
(*                                                                         *)
(* Numbers.  JavaScript numbers are modelled as exact rationals, records   *)
(* [n |-> numerator, d |-> denominator] in lowest terms with d > 0, so     *)
(* that 3.59, 0.5 credits and 24/7 are all values of the model.  A         *)
(* division by zero yields NaN, Infinity or MinusInfinity as in            *)
(* JavaScript.  Floating-point rounding is not modelled.                   *)
(***************************************************************************)
EXTENDS Integers, Sequences, FiniteSets, TLC

VARIABLES
    \* App (App.tsx)
    activeView,    \* useState('dashboard')
    semesters,     \* useState<Semester[]>([])
    settings,      \* useState<AppSettings>({gradingScale: 4.0, theme: 'light'})
    showWelcome,   \* useState(false)
    \* GPACalculator (mounted only while activeView = "gpa")
    semesterName,  \* useState(''), a sequence of characters
    courses,       \* useState<Course[]>([{id: '1', ...}])
    courseMarks,   \* useState({}), course id -> marks
    \* environment
    storage,       \* localStorage: key -> stored text, Null when the key is absent
    now,           \* Date.now(), read for the ids and dates
    effects,       \* passive effects React still has to run, in order
    updates,       \* state updates queued by effects, applied at the next render
    \* observation
    saveCall,      \* the last handleSave call: its form before the call and its outcome
    mountSnap,     \* what storage held when the App was last mounted
    \* the calculation functions on their own (SpecCalc)
    call,          \* the function applied and its arguments
    ret            \* its result, NoRet before the call

appVars == <<activeView, semesters, settings, showWelcome>>
formVars == <<semesterName, courses, courseMarks>>
envVars == <<storage, now, effects, updates>>
obsVars == <<saveCall, mountSnap>>
calcVars == <<call, ret>>
vars == <<appVars, formVars, envVars, obsVars, calcVars>>

----------------------------------------------------------------------------
(* Rational arithmetic *)

Abs(i) == IF i < 0 THEN -i ELSE i

RECURSIVE GCD(_, _)
GCD(a, b) == IF b = 0 THEN a ELSE GCD(b, a % b)

\* n/d in lowest terms, d # 0
Q(n, d) ==
    LET g == GCD(Abs(n), Abs(d))
        s == IF d < 0 THEN -1 ELSE 1
    IN  [n |-> s * (n \div g), d |-> s * (d \div g)]

R(i) == [n |-> i, d |-> 1]

RAdd(a, b) == Q(a.n * b.d + b.n * a.d, a.d * b.d)
RSub(a, b) == Q(a.n * b.d - b.n * a.d, a.d * b.d)
RMul(a, b) == Q(a.n * b.n, a.d * b.d)
RLt(a, b)  == a.n * b.d < b.n * a.d
RGt(a, b)  == RLt(b, a)
RGeq(a, b) == ~RLt(a, b)
RLeq(a, b) == ~RLt(b, a)

\* what a division by zero gives
NaN == [n |-> 0, d |-> 0]
Infinity == [n |-> 1, d |-> 0]
MinusInfinity == [n |-> -1, d |-> 0]

\* JavaScript's a / b
RDiv(a, b) ==
    IF b.n # 0 THEN Q(a.n * b.d, a.d * b.n)
    ELSE IF a.n = 0 THEN NaN
    ELSE IF a.n > 0 THEN Infinity
    ELSE MinusInfinity

\* arr.reduce((sum, x) => sum + x, init) over a list of numbers, left to right
RECURSIVE reduce(_, _)
reduce(arr, init) ==
    IF arr = <<>> THEN init
    ELSE reduce(Tail(arr), RAdd(init, Head(arr)))

----------------------------------------------------------------------------
(* utils/calculations *)

Letters == {"A+", "A", "B+", "B", "C+", "C", "D+", "D", "F"}

getGradeScale(maxScale) ==
    IF maxScale = R(5)
    THEN [g \in Letters |->
            CASE g = "A+" -> R(5)
              [] g = "A"  -> Q(9, 2)
              [] g = "B+" -> R(4)
              [] g = "B"  -> Q(7, 2)
              [] g = "C+" -> R(3)
              [] g = "C"  -> Q(5, 2)
              [] g = "D+" -> R(2)
              [] g = "D"  -> Q(3, 2)
              [] g = "F"  -> R(0)]
    ELSE [g \in Letters |->
            CASE g = "A+" -> R(4)
              [] g = "A"  -> R(4)
              [] g = "B+" -> Q(7, 2)
              [] g = "B"  -> R(3)
              [] g = "C+" -> Q(5, 2)
              [] g = "C"  -> R(2)
              [] g = "D+" -> Q(3, 2)
              [] g = "D"  -> R(1)
              [] g = "F"  -> R(0)]

\* calculateGPA as the plain mean of the grade points, the credits ignored
calculateGPAUnweighted(courseList) ==
    IF Len(courseList) = 0 THEN R(0)
    ELSE RDiv(reduce([i \in 1..Len(courseList) |-> courseList[i].gradePoint], R(0)),
              R(Len(courseList)))

calculateGPA(courseList) ==
    IF Len(courseList) = 0 THEN R(0)
    ELSE
        LET totalPoints ==
                reduce([i \in 1..Len(courseList) |->
                            RMul(courseList[i].gradePoint, courseList[i].credits)], R(0))
            totalCredits ==
                reduce([i \in 1..Len(courseList) |-> courseList[i].credits], R(0))
        IN  IF RGt(totalCredits, R(0)) THEN RDiv(totalPoints, totalCredits) ELSE R(0)

\* calculateCGPA as the plain mean of the semester GPAs, the credits ignored
calculateCGPAUnweighted(semesterList) ==
    IF Len(semesterList) = 0 THEN R(0)
    ELSE RDiv(reduce([i \in 1..Len(semesterList) |-> semesterList[i].gpa], R(0)),
              R(Len(semesterList)))

calculateCGPA(semesterList) ==
    IF Len(semesterList) = 0 THEN R(0)
    ELSE
        LET totalPoints ==
                reduce([i \in 1..Len(semesterList) |->
                            RMul(semesterList[i].gpa, semesterList[i].totalCredits)], R(0))
            totalCredits ==
                reduce([i \in 1..Len(semesterList) |-> semesterList[i].totalCredits], R(0))
        IN  IF RGt(totalCredits, R(0)) THEN RDiv(totalPoints, totalCredits) ELSE R(0)

\* calculateRequiredGPA with its result clamped to [0, 5]
calculateRequiredGPAClamped(currentCGPA, currentCredits, targetCGPA, remainingCredits) ==
    IF RLeq(remainingCredits, R(0)) THEN R(0)
    ELSE
        LET required ==
                RDiv(RSub(RMul(targetCGPA, RAdd(currentCredits, remainingCredits)),
                          RMul(currentCGPA, currentCredits)),
                     remainingCredits)
        IN  IF RLt(required, R(0)) THEN R(0)
            ELSE IF RGt(required, R(5)) THEN R(5)
            ELSE required

calculateRequiredGPA(currentCGPA, currentCredits, targetCGPA, remainingCredits) ==
    IF RLeq(remainingCredits, R(0)) THEN R(0)
    ELSE
        LET totalCreditsNeeded == RAdd(currentCredits, remainingCredits)
            totalPointsNeeded == RMul(targetCGPA, totalCreditsNeeded)
            currentPoints == RMul(currentCGPA, currentCredits)
            requiredPoints == RSub(totalPointsNeeded, currentPoints)
        IN  RDiv(requiredPoints, remainingCredits)

\* the 5.0 scale classification
classOnFive(cgpa) ==
    IF RGeq(cgpa, Q(9, 2)) THEN [class |-> "First Class", color |-> "#1e8449"]
    ELSE IF RGeq(cgpa, Q(7, 2)) THEN [class |-> "Second Class (Upper)", color |-> "#196f3d"]
    ELSE IF RGeq(cgpa, Q(5, 2)) THEN [class |-> "Second Class (Lower)", color |-> "#5dade2"]
    ELSE IF RGeq(cgpa, R(2)) THEN [class |-> "Third Class", color |-> "#f5b041"]
    ELSE IF RGeq(cgpa, Q(3, 2)) THEN [class |-> "Pass", color |-> "#eb984e"]
    ELSE [class |-> "Fail", color |-> "#ec7063"]

\* the 4.0 scale classification
classOnFour(cgpa) ==
    IF RGeq(cgpa, Q(18, 5)) THEN [class |-> "First Class", color |-> "#201e84"]
    ELSE IF RGeq(cgpa, R(3)) THEN [class |-> "Second Class (Upper)", color |-> "#e4d726"]
    ELSE IF RGeq(cgpa, R(2)) THEN [class |-> "Second Class (Lower)", color |-> "#c1e911"]
    ELSE IF RGeq(cgpa, Q(3, 2)) THEN [class |-> "Third Class", color |-> "#f5b041"]
    ELSE IF RGeq(cgpa, R(1)) THEN [class |-> "Pass", color |-> "#8b0c81"]
    ELSE [class |-> "Fail", color |-> "#f0210a"]

\* getAcademicClass taking every scale of 5.0 or more for the 5.0 scale
getAcademicClassAtLeastFive(cgpa, gradingScale) ==
    IF RGeq(gradingScale, R(5)) THEN classOnFive(cgpa) ELSE classOnFour(cgpa)

getAcademicClass(cgpa, gradingScale) ==
    IF gradingScale = R(5) THEN classOnFive(cgpa) ELSE classOnFour(cgpa)

\* the 5.0 scale thresholds
gradeOnFive(marks) ==
    IF RGeq(marks, R(80)) THEN "A+"
    ELSE IF RGeq(marks, R(70)) THEN "A"
    ELSE IF RGeq(marks, R(65)) THEN "B+"
    ELSE IF RGeq(marks, R(60)) THEN "B"
    ELSE IF RGeq(marks, R(55)) THEN "C+"
    ELSE IF RGeq(marks, R(50)) THEN "C"
    ELSE IF RGeq(marks, R(45)) THEN "D+"
    ELSE IF RGeq(marks, R(40)) THEN "D"
    ELSE "F"

\* the 4.0 scale thresholds
gradeOnFour(marks) ==
    IF RGeq(marks, R(80)) THEN "A"
    ELSE IF RGeq(marks, R(75)) THEN "B+"
    ELSE IF RGeq(marks, R(70)) THEN "B"
    ELSE IF RGeq(marks, R(65)) THEN "C+"
    ELSE IF RGeq(marks, R(60)) THEN "C"
    ELSE IF RGeq(marks, R(55)) THEN "D+"
    ELSE IF RGeq(marks, R(50)) THEN "D"
    ELSE "F"

\* getGradeFromMarks with the range check made strict at both ends
getGradeFromMarksOpenRange(marks, gradingScale) ==
    IF RLeq(marks, R(0)) \/ RGeq(marks, R(100)) THEN ""
    ELSE IF gradingScale = R(5) THEN gradeOnFive(marks)
    ELSE gradeOnFour(marks)

getGradeFromMarks(marks, gradingScale) ==
    IF RLt(marks, R(0)) \/ RGt(marks, R(100)) THEN ""
    ELSE IF gradingScale = R(5) THEN gradeOnFive(marks)
    ELSE gradeOnFour(marks)

----------------------------------------------------------------------------
(* Bounds and inputs *)

MaxCourses == 2        \* rows the form may hold
MaxSemesters == 2      \* semesters the list may hold
MaxNow == 3            \* last clock value that may be read
MaxLen == 3            \* courses in a list handed to calculateGPA on its own

\* A value that may be absent is <<>> when absent and <<value>> when present.
Null == <<>>
None == <<>>
NoRet == <<>>
Some(value) == <<value>>
Get(opt) == opt[1]

\* the views of the nav buttons; 'goals' is left out, it behaves as 'analytics'
\* does: neither view is given a handler that changes state
Views == {"dashboard", "gpa", "cgpa", "analytics", "settings"}
Themes == {"light"}
ScaleInputs == {R(4), R(5)}

\* what the user types; the form edits a course's name and credits through
\* updateCourse and its grade through updateMarks only
SemesterNameInputs == {<<>>, <<" ">>, <<" ", "F">>}
CourseNameInputs == {<<>>, <<"M">>}
CreditInputs == {R(0), R(3)}
MarksInputs == {R(45), R(85)}

----------------------------------------------------------------------------
(* String.prototype.trim and truthiness *)

IsSpace(ch) == ch = " "

RECURSIVE trimStart(_)
trimStart(str) ==
    IF str # <<>> /\ IsSpace(Head(str)) THEN trimStart(Tail(str)) ELSE str

RECURSIVE trimEnd(_)
trimEnd(str) ==
    IF str # <<>> /\ IsSpace(str[Len(str)])
    THEN trimEnd(SubSeq(str, 1, Len(str) - 1))
    ELSE str

\* the name used as it is, .trim() left out
trimNothing(str) == str

trim(str) == trimEnd(trimStart(str))

\* a string used as a condition: '' is falsy (names are sequences of characters,
\* grades are letter codes)
Truthy(str) == str # <<>>
TruthyGrade(grade) == grade # ""

----------------------------------------------------------------------------
(* utils/storage: values are kept as JSON text under a string key *)

stringify(value) == <<"json", value>>
parse(text) == text[2]

\* null for an absent key, else the parsed value
loadFromStorage(store, key) ==
    IF store[key] = Null THEN Null ELSE Some(parse(store[key]))

saveToStorage(store, key, value) ==
    [store EXCEPT ![key] = stringify(value)]

EmptyStorage == [semesters |-> Null, settings |-> Null, hasVisited |-> Null]

----------------------------------------------------------------------------
(* Initial values of the components' state *)

DefaultSettings == [gradingScale |-> R(4), theme |-> "light"]

EmptyCourse(id) ==
    [id |-> id, name |-> <<>>, credits |-> R(0), grade |-> "", gradePoint |-> R(0)]

InitialCourses == <<EmptyCourse(1)>>
NoMarks == [id \in {} |-> R(0)]

\* GPACalculator as mounted: its useState initial values
FormMounted ==
    /\ semesterName' = <<>>
    /\ courses' = InitialCourses
    /\ courseMarks' = NoMarks

\* the effects of a mount, in declaration order.  Under React.StrictMode a
\* development build runs them twice and a production build once; the source does
\* not fix which build serves the page, so every mount is one or the other
MountEffects(dev) ==
    LET once == <<"load", "saveSemesters", "saveSettings">>
    IN  IF dev THEN once \o once ELSE once

Idle == effects = <<>> /\ updates = <<>>

----------------------------------------------------------------------------
(* GPACalculator *)

\* const gradeScale = getGradeScale(gradingScale), the prop being settings.gradingScale
gradeScale == getGradeScale(settings.gradingScale)

\* gradeScale[grade] || 0
gradePointOf(scale, grade) ==
    IF grade \in DOMAIN scale THEN scale[grade] ELSE R(0)

\* c => c.credits > 0 && c.grade
HasCreditsAndGrade(c) == RGt(c.credits, R(0)) /\ TruthyGrade(c.grade)

\* the filter of handleSave without its grade test
IsValidCourseNoGrade(c) == Truthy(c.name) /\ RGt(c.credits, R(0))

\* c => c.name && c.credits > 0 && c.grade
IsValidCourse(c) == Truthy(c.name) /\ RGt(c.credits, R(0)) /\ TruthyGrade(c.grade)

\* const gpa = calculateGPA(courses.filter(...)), shown as "Calculated GPA"
liveGpa(courseList) == calculateGPA(SelectSeq(courseList, HasCreditsAndGrade))

\* every handler but handleSave: no alert is up, and the mount is no longer fresh
Handled == saveCall' = None /\ mountSnap' = None

FormShown == Idle /\ activeView = "gpa"

setSemesterName(value) ==
    /\ FormShown
    /\ semesterName' = value
    /\ UNCHANGED <<courses, courseMarks, appVars, envVars, calcVars>>
    /\ Handled

addCourse ==
    /\ FormShown
    /\ Len(courses) < MaxCourses
    /\ now < MaxNow
    /\ now' = now + 1
    /\ courses' = Append(courses, EmptyCourse(now'))
    /\ UNCHANGED <<semesterName, courseMarks, appVars, storage, effects, updates,
                   calcVars>>
    /\ Handled

removeCourse(id) ==
    /\ FormShown
    /\ IF Len(courses) > 1
       THEN /\ courses' = SelectSeq(courses, LAMBDA c : c.id # id)
            /\ courseMarks' = [k \in DOMAIN courseMarks \ {id} |-> courseMarks[k]]
       ELSE UNCHANGED <<courses, courseMarks>>
    /\ UNCHANGED <<semesterName, appVars, envVars, calcVars>>
    /\ Handled

updateMarks(id, marks) ==
    /\ FormShown
    /\ courseMarks' = [k \in DOMAIN courseMarks \cup {id} |->
                          IF k = id THEN marks ELSE courseMarks[k]]
    /\ LET grade == getGradeFromMarks(marks, settings.gradingScale)
           gradePoint == gradePointOf(gradeScale, grade)
       IN  courses' = [i \in 1..Len(courses) |->
                          IF courses[i].id = id
                          THEN [courses[i] EXCEPT !.grade = grade, !.gradePoint = gradePoint]
                          ELSE courses[i]]
    /\ UNCHANGED <<semesterName, appVars, envVars, calcVars>>
    /\ Handled

updateCourse(id, field, value) ==
    /\ FormShown
    /\ courses' = [i \in 1..Len(courses) |->
                      IF courses[i].id = id
                      THEN LET updated == [courses[i] EXCEPT ![field] = value]
                           IN  IF field = "grade"
                               THEN [updated EXCEPT !.gradePoint = gradePointOf(gradeScale, value)]
                               ELSE updated
                      ELSE courses[i]]
    /\ UNCHANGED <<semesterName, courseMarks, appVars, envVars, calcVars>>
    /\ Handled

\* the form, with the GPA it shows, and the App as handleSave finds them
FormSnapshot ==
    [semesterName |-> semesterName, courses |-> courses, courseMarks |-> courseMarks,
     gpa |-> liveGpa(courses), semesters |-> semesters, activeView |-> activeView]

\* validCourses.reduce((sum, c) => sum + c.credits, 0)
sumCredits(courseList) ==
    reduce([i \in 1..Len(courseList) |-> courseList[i].credits], R(0))

\* newSemester counting the courses where it should add their credits up
newSemesterCountCredits(stamp, name, validCourses) ==
    [id |-> stamp,
     name |-> name,
     courses |-> validCourses,
     gpa |-> calculateGPA(validCourses),
     totalCredits |-> R(Len(validCourses)),
     date |-> stamp]

\* the semester object handleSave builds
newSemester(stamp, name, validCourses) ==
    [id |-> stamp,
     name |-> name,
     courses |-> validCourses,
     gpa |-> calculateGPA(validCourses),
     totalCredits |-> sumCredits(validCourses),
     date |-> stamp]

\* App.addSemester, the onSave prop
addSemester(semester) == Append(semesters, semester)

handleSave ==
    /\ FormShown
    /\ mountSnap' = None
    /\ LET validCourses == SelectSeq(courses, IsValidCourse)
       IN  IF ~Truthy(trim(semesterName))
           THEN /\ saveCall' = Some([form |-> FormSnapshot,
                                     alert |-> "Please enter a semester name"])
                /\ UNCHANGED <<formVars, appVars, envVars, calcVars>>
           ELSE IF Len(validCourses) = 0
           THEN /\ saveCall' = Some([form |-> FormSnapshot,
                                     alert |-> "Please add at least one valid course"])
                /\ UNCHANGED <<formVars, appVars, envVars, calcVars>>
           ELSE /\ now < MaxNow
                /\ Len(semesters) < MaxSemesters
                /\ now' = now + 1
                /\ semesters' = addSemester(newSemester(now', semesterName, validCourses))
                /\ effects' = <<"saveSemesters">>
                /\ FormMounted
                /\ activeView' = "dashboard"
                /\ saveCall' = Some([form |-> FormSnapshot, alert |-> ""])
                /\ UNCHANGED <<settings, showWelcome, storage, updates, calcVars>>

----------------------------------------------------------------------------
(* App: handlers *)

\* setActiveView, from the nav buttons and the onNavigate props.  A component
\* rendered under "activeView === view &&" loses its state when the view changes.
handleNavigate(view) ==
    /\ Idle
    /\ activeView' = view
    /\ IF activeView = "gpa" /\ view = "gpa" THEN UNCHANGED formVars ELSE FormMounted
    /\ UNCHANGED <<semesters, settings, showWelcome, envVars, calcVars>>
    /\ Handled

\* semesters.map(s => s.id === id ? updated : s)
mapSemesters(id, updated) ==
    [i \in 1..Len(semesters) |-> IF semesters[i].id = id THEN updated ELSE semesters[i]]

\* the onUpdate prop of CGPACalculator
updateSemester(id, updated) ==
    /\ Idle
    /\ activeView = "cgpa"
    /\ semesters' = mapSemesters(id, updated)
    /\ effects' = <<"saveSemesters">>
    /\ UNCHANGED <<activeView, settings, showWelcome, formVars, storage, now,
                   updates, calcVars>>
    /\ Handled

\* the onDelete prop of CGPACalculator
deleteSemester(id) ==
    /\ Idle
    /\ activeView = "cgpa"
    /\ semesters' = SelectSeq(semesters, LAMBDA sem : sem.id # id)
    /\ effects' = <<"saveSemesters">>
    /\ UNCHANGED <<activeView, settings, showWelcome, formVars, storage, now,
                   updates, calcVars>>
    /\ Handled

\* the onReset prop of Settings
handleResetAll ==
    /\ Idle
    /\ activeView = "settings"
    /\ semesters' = <<>>
    /\ showWelcome' = TRUE
    /\ effects' = <<"saveSemesters">>
    /\ UNCHANGED <<activeView, settings, formVars, storage, now, updates, calcVars>>
    /\ Handled

\* the onUpdate prop of Settings: setSettings
settingsOnUpdate(newSettings) ==
    /\ Idle
    /\ activeView = "settings"
    /\ settings' = newSettings
    /\ effects' = <<"saveSettings">>
    /\ UNCHANGED <<activeView, semesters, showWelcome, formVars, storage, now,
                   updates, calcVars>>
    /\ Handled

\* the onSelectScale prop of Dashboard, which also gets showWelcome
handleScaleSelection(scale) ==
    /\ Idle
    /\ activeView = "dashboard"
    /\ showWelcome
    /\ LET newSettings == [settings EXCEPT !.gradingScale = scale]
       IN  /\ settings' = newSettings
           /\ storage' = saveToStorage(storage, "settings", newSettings)
    /\ showWelcome' = FALSE
    /\ effects' = <<"saveSettings">>
    /\ UNCHANGED <<activeView, semesters, formVars, now, updates, calcVars>>
    /\ Handled

----------------------------------------------------------------------------
(* App: effects.  React runs the pending effects in order after a render, and *)
(* renders again for the state they set once all of them have run.            *)

\* useEffect(() => {...}, []): load saved data on mount
loadEffect ==
    /\ effects # <<>> /\ Head(effects) = "load"
    /\ LET loaded == loadFromStorage(storage, "semesters")
           savedSemesters == IF loaded = Null THEN <<>> ELSE Get(loaded)
           savedSettings == loadFromStorage(storage, "settings")
           hasVisited == loadFromStorage(storage, "hasVisited")
       IN  /\ updates' = updates \o
                  (IF savedSettings # Null
                   THEN <<[set |-> "semesters", value |-> savedSemesters],
                          [set |-> "settings", value |-> Get(savedSettings)]>>
                   ELSE <<[set |-> "showWelcome", value |-> TRUE]>>)
           /\ storage' = IF hasVisited = Null \/ hasVisited = Some(FALSE)
                         THEN saveToStorage(storage, "hasVisited", TRUE)
                         ELSE storage
    /\ effects' = Tail(effects)
    /\ UNCHANGED <<appVars, formVars, now, obsVars, calcVars>>

\* useEffect(() => saveToStorage('semesters', semesters), [semesters])
saveSemestersEffect ==
    /\ effects # <<>> /\ Head(effects) = "saveSemesters"
    /\ storage' = saveToStorage(storage, "semesters", semesters)
    /\ effects' = Tail(effects)
    /\ UNCHANGED <<appVars, formVars, now, updates, obsVars, calcVars>>

\* useEffect(() => saveToStorage('settings', settings), [settings])
saveSettingsEffect ==
    /\ effects # <<>> /\ Head(effects) = "saveSettings"
    /\ storage' = saveToStorage(storage, "settings", settings)
    /\ effects' = Tail(effects)
    /\ UNCHANGED <<appVars, formVars, now, updates, obsVars, calcVars>>

\* the value the last queued update of a state variable sets, else its current value
RECURSIVE applyUpdates(_, _, _)
applyUpdates(queue, which, current) ==
    IF queue = <<>> THEN current
    ELSE applyUpdates(Tail(queue), which,
                      IF Head(queue).set = which THEN Head(queue).value ELSE current)

Sets(queue, which) == \E i \in 1..Len(queue) : queue[i].set = which

\* the render for the updates the effects queued; a loaded value is a new object,
\* so each effect whose dependency was set runs again
render ==
    /\ effects = <<>> /\ updates # <<>>
    /\ semesters' = applyUpdates(updates, "semesters", semesters)
    /\ settings' = applyUpdates(updates, "settings", settings)
    /\ showWelcome' = applyUpdates(updates, "showWelcome", showWelcome)
    /\ effects' = (IF Sets(updates, "semesters") THEN <<"saveSemesters">> ELSE <<>>)
                  \o (IF Sets(updates, "settings") THEN <<"saveSettings">> ELSE <<>>)
    /\ updates' = <<>>
    /\ UNCHANGED <<activeView, formVars, storage, now, obsVars, calcVars>>

\* ReactDOM.createRoot(...).render(<React.StrictMode><App /></React.StrictMode>):
\* the page is opened again
mount(dev) ==
    /\ Idle
    /\ activeView' = "dashboard"
    /\ semesters' = <<>>
    /\ settings' = DefaultSettings
    /\ showWelcome' = FALSE
    /\ FormMounted
    /\ effects' = MountEffects(dev)
    /\ mountSnap' = Some([semesters |-> loadFromStorage(storage, "semesters"),
                          settings |-> loadFromStorage(storage, "settings")])
    /\ saveCall' = None
    /\ UNCHANGED <<storage, now, updates, calcVars>>

----------------------------------------------------------------------------
(* The application *)

Init ==
    /\ activeView = "dashboard"
    /\ semesters = <<>>
    /\ settings = DefaultSettings
    /\ showWelcome = FALSE
    /\ semesterName = <<>>
    /\ courses = InitialCourses
    /\ courseMarks = NoMarks
    /\ storage = EmptyStorage
    /\ now = 1
    /\ effects \in {MountEffects(dev) : dev \in BOOLEAN}
    /\ updates = <<>>
    /\ saveCall = None
    /\ mountSnap = Some([semesters |-> Null, settings |-> Null])
    /\ call = None
    /\ ret = NoRet

CourseIds == {courses[i].id : i \in 1..Len(courses)}
SemesterIds == {semesters[i].id : i \in 1..Len(semesters)}

\* What CGPACalculator hands to onUpdate is an input of the App: here the semester
\* with its last course taken out and its derived fields computed again.
Edited(sem) ==
    IF Len(sem.courses) > 1
    THEN LET kept == SubSeq(sem.courses, 1, Len(sem.courses) - 1)
         IN  newSemester(sem.id, sem.name, kept)
    ELSE sem

Next ==
    \/ \E v \in SemesterNameInputs : setSemesterName(v)
    \/ addCourse
    \/ \E id \in CourseIds : removeCourse(id)
    \/ \E id \in CourseIds, m \in MarksInputs : updateMarks(id, m)
    \/ \E id \in CourseIds, v \in CourseNameInputs : updateCourse(id, "name", v)
    \/ \E id \in CourseIds, v \in CreditInputs : updateCourse(id, "credits", v)
    \/ handleSave
    \/ \E view \in Views : handleNavigate(view)
    \/ \E i \in 1..Len(semesters) : updateSemester(semesters[i].id, Edited(semesters[i]))
    \/ \E id \in SemesterIds : deleteSemester(id)
    \/ handleResetAll
    \/ \E sc \in ScaleInputs, th \in Themes :
           settingsOnUpdate([gradingScale |-> sc, theme |-> th])
    \/ \E sc \in ScaleInputs : handleScaleSelection(sc)
    \/ loadEffect
    \/ saveSemestersEffect
    \/ saveSettingsEffect
    \/ render
    \/ \E dev \in BOOLEAN : mount(dev)

Spec == Init /\ [][Next]_vars

----------------------------------------------------------------------------
(* The calculation functions on their own: the arguments are drawn at the    *)
(* start and one step applies the function.                                   *)

SeqsUpTo(S, k) == UNION {[1..m -> S] : m \in 0..k}

CalcScales == {R(4), R(5), R(999)}
CalcCourse == [credits : {R(0), Q(1, 2), R(3)}, gradePoint : {R(0), Q(7, 2), R(4)}]
CalcMarks == {Q(m, 2) : m \in -4..204}
CalcCgpa == {Q(m, 100) : m \in -20..520}

\* the courses of the semesters handed to calculateCGPA, and those semesters as
\* handleSave builds them
CalcSavedCourse ==
    {[credits |-> R(3), gradePoint |-> R(4)],
     [credits |-> Q(1, 2), gradePoint |-> Q(7, 2)],
     [credits |-> R(0), gradePoint |-> R(4)]}
CalcSemester ==
    {newSemester(1, <<"F">>, cs) : cs \in SeqsUpTo(CalcSavedCourse, MaxCourses)}

CalcCalls ==
    {[fn |-> "calculateGPA", args |-> <<cs>>] : cs \in SeqsUpTo(CalcCourse, MaxLen)}
    \cup {[fn |-> "calculateCGPA", args |-> <<sems>>] :
            sems \in SeqsUpTo(CalcSemester, MaxSemesters)}
    \cup {[fn |-> "calculateRequiredGPA", args |-> <<cur, cc, target, rem>>] :
            cur \in {R(0), R(3), Q(7, 2)}, cc \in {R(0), Q(15, 2), R(30)},
            target \in {R(2), Q(7, 2), R(5)}, rem \in {R(-10), R(0), Q(1, 2), R(10)}}
    \cup {[fn |-> "getGradeFromMarks", args |-> <<m, sc>>] :
            m \in CalcMarks, sc \in CalcScales}
    \cup {[fn |-> "getAcademicClass", args |-> <<c, sc>>] :
            c \in CalcCgpa, sc \in CalcScales}

Calling(fn) == call # None /\ Get(call).fn = fn /\ ret = NoRet
Returned(fn) == call # None /\ Get(call).fn = fn /\ ret # NoRet
Arg(i) == Get(call).args[i]

Returns(value) ==
    /\ ret' = Some(value)
    /\ UNCHANGED <<call, appVars, formVars, envVars, obsVars>>

applyCalculateGPA ==
    Calling("calculateGPA") /\ Returns(calculateGPA(Arg(1)))

applyCalculateCGPA ==
    Calling("calculateCGPA") /\ Returns(calculateCGPA(Arg(1)))

applyCalculateRequiredGPA ==
    Calling("calculateRequiredGPA")
    /\ Returns(calculateRequiredGPA(Arg(1), Arg(2), Arg(3), Arg(4)))

applyGetGradeFromMarks ==
    Calling("getGradeFromMarks") /\ Returns(getGradeFromMarks(Arg(1), Arg(2)))

applyGetAcademicClass ==
    Calling("getAcademicClass") /\ Returns(getAcademicClass(Arg(1), Arg(2)))

InitCalc ==
    /\ activeView = "dashboard"
    /\ semesters = <<>>
    /\ settings = DefaultSettings
    /\ showWelcome = FALSE
    /\ semesterName = <<>>
    /\ courses = InitialCourses
    /\ courseMarks = NoMarks
    /\ storage = EmptyStorage
    /\ now = 1
    /\ effects = MountEffects(FALSE)
    /\ updates = <<>>
    /\ saveCall = None
    /\ mountSnap = Some([semesters |-> Null, settings |-> Null])
    /\ call \in {Some(c) : c \in CalcCalls}
    /\ ret = NoRet

NextCalc ==
    \/ applyCalculateGPA
    \/ applyCalculateCGPA
    \/ applyCalculateRequiredGPA
    \/ applyGetGradeFromMarks
    \/ applyGetAcademicClass

SpecCalc == InitCalc /\ [][NextCalc]_vars

----------------------------------------------------------------------------
(* What the properties are stated with *)

\* seq[1] + ... + seq[k], from the last term down
RECURSIVE TotalTo(_, _)
TotalTo(seq, k) == IF k = 0 THEN R(0) ELSE RAdd(seq[k], TotalTo(seq, k - 1))

CreditsTotal(cs) == TotalTo([i \in 1..Len(cs) |-> cs[i].credits], Len(cs))
PointsTotal(cs) ==
    TotalTo([i \in 1..Len(cs) |-> RMul(cs[i].gradePoint, cs[i].credits)], Len(cs))

\* r is the credit-weighted mean of cs, and 0 when cs carries no credits
IsMeanOf(r, cs) ==
    IF RGt(CreditsTotal(cs), R(0))
    THEN r.d # 0 /\ RMul(r, CreditsTotal(cs)) = PointsTotal(cs)
    ELSE r = R(0)

\* the members of cs[1..k] the mask keeps, in order
RECURSIVE Pick(_, _, _)
Pick(cs, mask, k) ==
    IF k = 0 THEN <<>>
    ELSE IF mask[k] THEN Append(Pick(cs, mask, k - 1), cs[k])
    ELSE Pick(cs, mask, k - 1)

Complete(c) == c.name # <<>> /\ c.credits.n > 0 /\ c.grade # ""
Counted(c) == c.credits.n > 0 /\ c.grade # ""

CompleteOf(cs) == Pick(cs, [i \in 1..Len(cs) |-> Complete(cs[i])], Len(cs))
CountedOf(cs) == Pick(cs, [i \in 1..Len(cs) |-> Counted(cs[i])], Len(cs))

\* the semesters localStorage holds
StoredSemesters ==
    IF storage.semesters = Null THEN <<>> ELSE parse(storage.semesters)

\* every semester in memory and in localStorage
Persisted ==
    {semesters[i] : i \in 1..Len(semesters)}
    \cup {StoredSemesters[i] : i \in 1..Len(StoredSemesters)}

\* the courses of sems[1..k], one semester after the other
RECURSIVE CoursesTo(_, _)
CoursesTo(sems, k) ==
    IF k = 0 THEN <<>> ELSE CoursesTo(sems, k - 1) \o sems[k].courses

\* sem has the gpa and the credit total of its courses, and carries credits
Consistent(sem) ==
    /\ sem.gpa = calculateGPA(sem.courses)
    /\ sem.totalCredits = CreditsTotal(sem.courses)
    /\ RGt(sem.totalCredits, R(0))

Saved == saveCall # None /\ Get(saveCall).alert = ""
Rejected == saveCall # None /\ Get(saveCall).alert # ""
FormBefore == Get(saveCall).form
LastSemester == semesters[Len(semesters)]

----------------------------------------------------------------------------
(* Properties *)

\* C1: every semester handleSave hands to onSave, and every semester kept in
\* memory or in localStorage after any sequence of addSemester, updateSemester,
\* deleteSemester and handleResetAll, has gpa = calculateGPA(its courses) and
\* totalCredits = the sum of its courses' credits.
C1_DerivedFieldsConsistent ==
    \A sem \in Persisted :
        /\ sem.gpa = calculateGPA(sem.courses)
        /\ sem.totalCredits = CreditsTotal(sem.courses)

\* a saved semester of two courses with different grade points is in the list
C1_Witness ==
    \E i \in 1..Len(semesters) :
        /\ Len(semesters[i].courses) = 2
        /\ semesters[i].courses[1].gradePoint # semesters[i].courses[2].gradePoint
        /\ semesters[i].totalCredits = R(6)
        /\ semesters[i].gpa = R(2)

\* C2: every course, in the form and in every stored semester, has the grade
\* point the active grading scale gives its grade (0 for no grade).
C2_GradePointFollowsActiveScale ==
    LET scale == getGradeScale(settings.gradingScale)
        Follows(c) == c.gradePoint = (IF c.grade \in Letters THEN scale[c.grade] ELSE R(0))
    IN  /\ \A i \in 1..Len(courses) : Follows(courses[i])
        /\ \A i \in 1..Len(semesters) :
               \A j \in 1..Len(semesters[i].courses) : Follows(semesters[i].courses[j])

\* C3: calculateGPA returns the credit-weighted mean of the grade points when the
\* credits add up to more than 0, and 0 for an empty list or no credits; courses
\* that all carry credits and the same grade point k give k.
C3_WeightedMean ==
    Returned("calculateGPA") =>
        LET cs == Arg(1)
            r == Get(ret)
        IN  /\ IsMeanOf(r, cs)
            /\ \A k \in {cs[i].gradePoint : i \in 1..Len(cs)} :
                   (\A i \in 1..Len(cs) : cs[i].credits.n > 0 /\ cs[i].gradePoint = k)
                       => r = k

\* the mean of 4.0 over 3 credits and 3.5 over 0.5 credits was computed
C3_Witness ==
    /\ Returned("calculateGPA")
    /\ Arg(1) = <<[credits |-> R(3), gradePoint |-> R(4)],
                  [credits |-> Q(1, 2), gradePoint |-> Q(7, 2)]>>
    /\ Get(ret) = Q(55, 14)

MarksTableFive ==
    <<<<80, "A+">>, <<70, "A">>, <<65, "B+">>, <<60, "B">>, <<55, "C+">>, <<50, "C">>,
      <<45, "D+">>, <<40, "D">>>>
MarksTableFour ==
    <<<<80, "A">>, <<75, "B+">>, <<70, "B">>, <<65, "C+">>, <<60, "C">>, <<55, "D+">>,
      <<50, "D">>>>

\* the entries of a table that x reaches (x >= threshold), by position
Reached(table, x) == {i \in 1..Len(table) : x.n >= table[i][1] * x.d}

\* the first entry x reaches, else the table's last resort
FirstReached(table, x, otherwise) ==
    IF Reached(table, x) = {} THEN otherwise
    ELSE table[CHOOSE i \in Reached(table, x) : \A j \in Reached(table, x) : i <= j][2]

\* C5: getGradeFromMarks returns '' for marks below 0 or above 100, and otherwise
\* the first letter of the descending threshold table that the marks reach, F when
\* they reach none: the 5.0 table for a scale of exactly 5.0, the 4.0 table for
\* every other scale.
C5_GradeFromMarksTable ==
    Returned("getGradeFromMarks") =>
        LET marks == Arg(1)
            table == IF Arg(2) = R(5) THEN MarksTableFive ELSE MarksTableFour
        IN  Get(ret) = (IF marks.n < 0 \/ marks.n > 100 * marks.d THEN ""
                        ELSE FirstReached(table, marks, "F"))

\* getGradeFromMarks(100, 999) returned 'A'
C5_Witness ==
    /\ Returned("getGradeFromMarks")
    /\ Arg(1) = R(100) /\ Arg(2) = R(999)
    /\ Get(ret) = "A"

\* the ladders of getAcademicClass, thresholds in hundredths
ClassLadderFive ==
    <<<<450, "First Class">>, <<350, "Second Class (Upper)">>,
      <<250, "Second Class (Lower)">>, <<200, "Third Class">>, <<150, "Pass">>>>
ClassLadderFour ==
    <<<<360, "First Class">>, <<300, "Second Class (Upper)">>,
      <<200, "Second Class (Lower)">>, <<150, "Third Class">>, <<100, "Pass">>>>

\* the standings from the lowest to the highest
Standings ==
    <<"Fail", "Pass", "Third Class", "Second Class (Lower)", "Second Class (Upper)",
      "First Class">>
Rank(class) == CHOOSE i \in 1..Len(Standings) : Standings[i] = class

\* C6: getAcademicClass returns one of the six standings, the first of the
\* descending ladder that cgpa reaches and Fail when it reaches none (the 5.0
\* ladder for a scale of exactly 5.0, the 4.0 ladder for every other scale), so
\* that no higher cgpa gets a lower standing under the same scale.
C6_AcademicClassLadder ==
    Returned("getAcademicClass") =>
        LET cgpa == Arg(1)
            ladder == IF Arg(2) = R(5) THEN ClassLadderFive ELSE ClassLadderFour
            got == Get(ret).class
        IN  /\ \E i \in 1..Len(Standings) : Standings[i] = got
            /\ got = FirstReached(ladder, RMul(cgpa, R(100)), "Fail")
            /\ \A higher \in CalcCgpa :
                   RGeq(higher, cgpa) =>
                       Rank(getAcademicClass(higher, Arg(2)).class) >= Rank(got)

\* getAcademicClass(3.59, 4.0) returned Second Class (Upper)
C6_Witness ==
    /\ Returned("getAcademicClass")
    /\ Arg(1) = Q(359, 100) /\ Arg(2) = R(4)
    /\ Get(ret).class = "Second Class (Upper)"

\* C7: no course with zero credits or no grade counts in the GPA the form shows or
\* in the gpa of a saved semester; the courses of the semester handleSave saves are
\* the complete courses of the form (name, credits > 0, grade), in form order; and
\* no incomplete course is in a semester in memory or in localStorage.
C7_OnlyCompleteCoursesSaved ==
    /\ IsMeanOf(liveGpa(courses), CountedOf(courses))
    /\ Saved =>
           /\ LastSemester.courses = CompleteOf(FormBefore.courses)
           /\ IsMeanOf(LastSemester.gpa, CompleteOf(FormBefore.courses))
    /\ \A sem \in Persisted : \A j \in 1..Len(sem.courses) : Complete(sem.courses[j])

\* a form of two rows was saved and only its second row went into the semester
C7_Witness ==
    /\ Saved
    /\ Len(FormBefore.courses) = 2
    /\ ~Complete(FormBefore.courses[1])
    /\ LastSemester.courses = <<FormBefore.courses[2]>>

Blank(str) == \A i \in 1..Len(str) : str[i] = " "

\* C8: handleSave rejects the save exactly when the semester name is empty or all
\* whitespace or the form has no complete course: then no semester is added, no
\* save is pending and the form and the active view are as they were; otherwise
\* it adds one semester to the list.
C8_InvalidSaveRejected ==
    saveCall # None =>
        LET f == FormBefore
            invalid == Blank(f.semesterName)
                       \/ ~\E i \in 1..Len(f.courses) : Complete(f.courses[i])
        IN  /\ Rejected <=> invalid
            /\ Rejected =>
                   /\ semesters = f.semesters
                   /\ effects = <<>>
                   /\ semesterName = f.semesterName
                   /\ courses = f.courses
                   /\ courseMarks = f.courseMarks
                   /\ activeView = f.activeView
            /\ Saved =>
                   /\ Len(semesters) = Len(f.semesters) + 1
                   /\ SubSeq(semesters, 1, Len(f.semesters)) = f.semesters

\* a save was rejected for a name of one space although the form held a complete
\* course
C8_Witness ==
    /\ Rejected
    /\ FormBefore.semesterName = <<" ">>
    /\ \E i \in 1..Len(courses) : Complete(courses[i])

\* C9: whenever no effect is pending, localStorage holds the semester list that is
\* in memory; and once the effects of a mount that found saved settings have run,
\* the list in memory and the list in localStorage are the list that was stored
\* before the mount.
C9_SemestersSurviveMount ==
    Idle =>
        /\ storage.semesters # Null /\ StoredSemesters = semesters
        /\ (mountSnap # None /\ Get(mountSnap).settings # Null) =>
               LET before == IF Get(mountSnap).semesters = Null THEN <<>>
                             ELSE Get(Get(mountSnap).semesters)
               IN  semesters = before /\ StoredSemesters = before

\* C10: the gpa of the semester handleSave saves is the GPA the form showed for
\* its courses just before the save.
C10_SavedGpaIsShownGpa ==
    Saved => LastSemester.gpa = FormBefore.gpa

====
